---- MODULE Spec2Model ----
(***************************************************************************)
(* A model of the cross platform C11 threads library (threads.h and its    *)
(* implementation file).  Every library function is an operator that is    *)
(* computed the way its C body computes it, once for the __unix__ build    *)
(* and once for the _WIN32 build; the native primitives the bodies call    *)
(* (pthread_*, WaitForSingleObject, ReleaseMutex, ...) are operators over   *)
(* an explicit native state (one mutex object, a table of threads).        *)
(***************************************************************************)
EXTENDS Integers, FiniteSets, Sequences, TLC

(***************************************************************************)
(* Bounds of the model.                                                    *)
(***************************************************************************)
\* threads 1..NThreads can be created; thread 0 is the initial thread
NThreads == 2
\* deepest nesting of a recursive acquisition the callers attempt
MaxHold == 2
\* largest mutex type value passed to mtx_init
MaxType == 3
\* the non-zero result code an entry function returns or passes to thrd_exit
TestCode == 42
\* threads 0..NLockers use the mutex
NLockers == 1

(***************************************************************************)
(* Program constants.                                                      *)
(***************************************************************************)
thrd_success == 0
thrd_nomem == 1
thrd_timedout == 2
thrd_busy == 3
thrd_error == 4

mtx_plain == 0
mtx_recursive == 1
mtx_timed == 2

\* <errno.h> values the unix build stores
EPERM == 1
EAGAIN == 11
ENOMEM == 12
EBUSY == 16
EINVAL == 22
EDEADLK == 35

\* <windows.h> values the win32 build compares with and stores
\* a DWORD is kept as its two 16 bit halves
Dword(hi, lo) == [hi |-> hi, lo |-> lo]
WAIT_OBJECT_0 == Dword(0, 0)
WAIT_ABANDONED == Dword(0, 128)
WAIT_TIMEOUT == Dword(0, 258)
WAIT_FAILED == Dword(65535, 65535)
INFINITE == Dword(65535, 65535)
ERROR_INVALID_HANDLE == 6
ERROR_NOT_ENOUGH_MEMORY == 8
ERROR_NOT_OWNER == 288
\* (HANDLE) 0
NULL == 0
\* the pseudo handle GetCurrentThread() returns, (HANDLE) -2
PseudoHandle == 0 - 2

Backends == {"unix", "win32"}
Threads == 0 .. NThreads
Created == 1 .. NThreads
Lockers == 0 .. NLockers
Types == 0 .. MaxType
Vals == {TestCode}
NoOwner == 0 - 1
NoType == 0 - 1
NoArg == 0 - 1

(***************************************************************************)
(* C arithmetic.                                                           *)
(***************************************************************************)
RECURSIVE BitOr(_, _)
BitOr(a, b) ==
    IF a = 0 THEN b
    ELSE IF b = 0 THEN a
    ELSE (IF a % 2 = 1 \/ b % 2 = 1 THEN 1 ELSE 0) + 2 * BitOr(a \div 2, b \div 2)

RECURSIVE BitAnd(_, _)
BitAnd(a, b) ==
    IF a = 0 \/ b = 0 THEN 0
    ELSE (IF a % 2 = 1 /\ b % 2 = 1 THEN 1 ELSE 0) + 2 * BitAnd(a \div 2, b \div 2)

\* (int) d for a DWORD d: the same 32 bits read as two's complement
ToInt(d) == IF d.hi >= 32768 THEN (d.hi - 65536) * 65536 + d.lo ELSE d.hi * 65536 + d.lo

\* (DWORD) i for an int i
ToDword(i) == Dword((i \div 65536) % 65536, i % 65536)

(***************************************************************************)
(* Native state.                                                           *)
(*   mutex object: valid (the object exists and the caller's mtx_t names   *)
(*   it), recursive (the owner may acquire it again), type (the type       *)
(*   mtx_init was given, NoType when mtx_init did not make it), owner,     *)
(*   count (nesting depth of the owner), abandoned (win32: the owner       *)
(*   terminated without releasing), nusers (unix: the number of users the  *)
(*   C library counts, one more for each acquisition of a free mutex and   *)
(*   one less for each release; an unsigned int in glibc, kept as the int  *)
(*   of the same bits; 0 on win32).                                        *)
(*   thread: st ("none" never created, "run", "term"), detached, joined,   *)
(*   open (win32: the handle thrd_create returned is still open), how and  *)
(*   res (the thread ended by "return" of res from its entry function or   *)
(*   by "exit", a call of thrd_exit(res)), isAddr and code (the value the  *)
(*   native thread ended with: on unix a void*, which is                   *)
(*   either an integer value or the address of thrd_exit's parameter; on   *)
(*   win32 the DWORD exit code, kept as the int of the same bits).         *)
(***************************************************************************)
NoMutex == [valid |-> FALSE, recursive |-> FALSE, type |-> NoType, owner |-> NoOwner,
            count |-> 0, abandoned |-> FALSE, nusers |-> 0]

\* a kernel mutex made by CreateMutex(NULL, FALSE, NULL) outside mtx_init
NativeMutex == [valid |-> TRUE, recursive |-> TRUE, type |-> NoType, owner |-> NoOwner,
                count |-> 0, abandoned |-> FALSE, nusers |-> 0]

NoThread == [st |-> "none", detached |-> FALSE, joined |-> FALSE, open |-> FALSE,
             how |-> "no", res |-> 0, isAddr |-> FALSE, code |-> 0]

\* the initial thread: it runs from the start and the program holds no handle
\* that thrd_create made for it
MainThread == [NoThread EXCEPT !.st = "run"]

\* pthread_t of thread i; also its win32 thread id and its win32 handle
IdOf(i) == i + 1

ThreadOf(h) == h - 1

(***************************************************************************)
(* POSIX primitives.  Each returns the value the call returns and the new  *)
(* native state; blocks = TRUE means the call cannot return in this state. *)
(***************************************************************************)
pthread_mutex_init(m, recursive, fail) ==
    IF fail
    THEN [value |-> ENOMEM, mtx |-> m]
    ELSE [value |-> 0,
          mtx |-> [valid |-> TRUE, recursive |-> recursive, type |-> NoType,
                   owner |-> NoOwner, count |-> 0, abandoned |-> FALSE,
                   nusers |-> 0]]

\* the C library refuses while its count of users is not 0
pthread_mutex_destroy(m) ==
    IF m.nusers # 0
    THEN [value |-> EBUSY, mtx |-> m]
    ELSE [value |-> 0, mtx |-> NoMutex]

pthread_mutex_lock(m, t) ==
    IF m.owner = NoOwner
    THEN [blocks |-> FALSE, value |-> 0,
          mtx |-> [m EXCEPT !.owner = t, !.count = 1, !.nusers = @ + 1]]
    ELSE IF m.owner = t /\ m.recursive
    THEN [blocks |-> FALSE, value |-> 0, mtx |-> [m EXCEPT !.count = @ + 1]]
    ELSE [blocks |-> TRUE, value |-> 0, mtx |-> m]

pthread_mutex_trylock(m, t) ==
    IF m.owner = NoOwner
    THEN [value |-> 0, mtx |-> [m EXCEPT !.owner = t, !.count = 1, !.nusers = @ + 1]]
    ELSE IF m.owner = t /\ m.recursive
    THEN [value |-> 0, mtx |-> [m EXCEPT !.count = @ + 1]]
    ELSE [value |-> EBUSY, mtx |-> m]

\* pthread_mutex_unlock that reports success and leaves the owner in place
pthread_mutex_unlock_keeps(m, t, lax) ==
    IF m.owner = t \/ (~m.recursive /\ lax)
    THEN [value |-> 0, mtx |-> m]
    ELSE [value |-> EPERM, mtx |-> m]

\* A recursive mutex refuses a caller that does not own it with EPERM.  For a
\* default mutex that the caller does not own (held by another thread, or
\* free) the call is undefined: lax tells which outcome the C library
\* produces, TRUE when it does not look at the owner, releases the mutex,
\* counts one user less and returns 0 (glibc: a free mutex is left with a
\* count of -1, which pthread_mutex_destroy then refuses), FALSE when it
\* returns EPERM and leaves the mutex alone.
pthread_mutex_unlock(m, t, lax) ==
    IF m.owner = t
    THEN [value |-> 0,
          mtx |-> IF m.count = 1
                  THEN [m EXCEPT !.owner = NoOwner, !.count = 0, !.nusers = @ - 1]
                  ELSE [m EXCEPT !.count = @ - 1]]
    ELSE IF ~m.recursive /\ lax
    THEN [value |-> 0, mtx |-> [m EXCEPT !.owner = NoOwner, !.count = 0, !.nusers = @ - 1]]
    ELSE [value |-> EPERM, mtx |-> m]

\* thr is what *thread holds before the call.  After a failure its contents
\* are undefined: wrote tells whether the C library had already stored the
\* descriptor of the thread it could not start (glibc, when clone is refused)
\* or left *thread alone (when no stack could be allocated).
pthread_create(tab, thr, i, fail, wrote) ==
    IF fail
    THEN [value |-> EAGAIN, thr |-> IF wrote THEN IdOf(i) ELSE thr, tab |-> tab]
    ELSE [value |-> 0, thr |-> IdOf(i),
          tab |-> [tab EXCEPT ![i] = [NoThread EXCEPT !.st = "run"]]]

pthread_self(t) == IdOf(t)

pthread_detach(tab, h) ==
    [value |-> 0, tab |-> [tab EXCEPT ![ThreadOf(h)].detached = TRUE]]

\* pthread_join without the wait: it returns 0 while the thread still runs
pthread_join_nowait(tab, h, t) ==
    IF h = IdOf(t)
    THEN [blocks |-> FALSE, value |-> EDEADLK, stored |-> FALSE, retval |-> 0, tab |-> tab]
    ELSE [blocks |-> FALSE, value |-> 0, stored |-> TRUE,
          retval |-> tab[ThreadOf(h)].code,
          tab |-> [tab EXCEPT ![ThreadOf(h)].joined = TRUE]]

\* retval is what the call stores through its second argument
pthread_join(tab, h, t) ==
    IF h = IdOf(t)
    THEN [blocks |-> FALSE, value |-> EDEADLK, stored |-> FALSE, retval |-> 0, tab |-> tab]
    ELSE IF tab[ThreadOf(h)].st = "run"
    THEN [blocks |-> TRUE, value |-> 0, stored |-> FALSE, retval |-> 0, tab |-> tab]
    ELSE [blocks |-> FALSE, value |-> 0, stored |-> TRUE,
          retval |-> tab[ThreadOf(h)].code,
          tab |-> [tab EXCEPT ![ThreadOf(h)].joined = TRUE]]

(***************************************************************************)
(* Win32 primitives.  ok is the BOOL or HANDLE the call returns, status    *)
(* the DWORD a wait returns, lasterr what GetLastError() gives after a     *)
(* failure.                                                                *)
(***************************************************************************)
CreateMutex(m, bInitialOwner, t, fail) ==
    IF fail
    THEN [ok |-> FALSE, lasterr |-> ERROR_NOT_ENOUGH_MEMORY, mtx |-> m]
    ELSE [ok |-> TRUE, lasterr |-> 0,
          mtx |-> [valid |-> TRUE, recursive |-> TRUE, type |-> NoType,
                   owner |-> IF bInitialOwner THEN t ELSE NoOwner,
                   count |-> IF bInitialOwner THEN 1 ELSE 0,
                   abandoned |-> FALSE, nusers |-> 0]]

CloseMutexHandle(m) ==
    IF m.valid
    THEN [ok |-> TRUE, lasterr |-> 0, mtx |-> NoMutex]
    ELSE [ok |-> FALSE, lasterr |-> ERROR_INVALID_HANDLE, mtx |-> m]

\* WaitForSingleObject on a mutex handle
WaitForMutex(m, t, dwMilliseconds) ==
    IF ~m.valid
    THEN [blocks |-> FALSE, status |-> WAIT_FAILED, lasterr |-> ERROR_INVALID_HANDLE,
          mtx |-> m]
    ELSE IF m.owner = NoOwner
    THEN [blocks |-> FALSE,
          status |-> IF m.abandoned THEN WAIT_ABANDONED ELSE WAIT_OBJECT_0,
          lasterr |-> 0,
          mtx |-> [m EXCEPT !.owner = t, !.count = 1, !.abandoned = FALSE]]
    ELSE IF m.owner = t
    THEN [blocks |-> FALSE, status |-> WAIT_OBJECT_0, lasterr |-> 0,
          mtx |-> [m EXCEPT !.count = @ + 1]]
    ELSE IF dwMilliseconds = INFINITE
    THEN [blocks |-> TRUE, status |-> WAIT_OBJECT_0, lasterr |-> 0, mtx |-> m]
    ELSE [blocks |-> FALSE, status |-> WAIT_TIMEOUT, lasterr |-> 0, mtx |-> m]

ReleaseMutex(m, t) ==
    IF ~m.valid
    THEN [ok |-> FALSE, lasterr |-> ERROR_INVALID_HANDLE, mtx |-> m]
    ELSE IF m.owner # t
    THEN [ok |-> FALSE, lasterr |-> ERROR_NOT_OWNER, mtx |-> m]
    ELSE [ok |-> TRUE, lasterr |-> 0,
          mtx |-> IF m.count = 1
                  THEN [m EXCEPT !.owner = NoOwner, !.count = 0]
                  ELSE [m EXCEPT !.count = @ - 1]]

CreateThread(tab, i, fail) ==
    IF fail
    THEN [thr |-> NULL, lasterr |-> ERROR_NOT_ENOUGH_MEMORY, tab |-> tab]
    ELSE [thr |-> IdOf(i), lasterr |-> 0,
          tab |-> [tab EXCEPT ![i] = [NoThread EXCEPT !.st = "run", !.open = TRUE]]]

GetCurrentThread == PseudoHandle

\* a handle names a thread when it is the pseudo handle or an open real handle
ValidThreadHandle(tab, h) ==
    \/ h = PseudoHandle
    \/ /\ ThreadOf(h) \in Created
       /\ tab[ThreadOf(h)].open

\* the thread a valid handle names, for caller t
HandleThread(h, t) == IF h = PseudoHandle THEN t ELSE ThreadOf(h)

GetThreadId(tab, h, t) ==
    IF ValidThreadHandle(tab, h)
    THEN [id |-> IdOf(HandleThread(h, t)), lasterr |-> 0]
    ELSE [id |-> 0, lasterr |-> ERROR_INVALID_HANDLE]

CloseThreadHandle(tab, h) ==
    IF h # PseudoHandle /\ ValidThreadHandle(tab, h)
    THEN [ok |-> TRUE, lasterr |-> 0,
          tab |-> [tab EXCEPT ![ThreadOf(h)].open = FALSE, ![ThreadOf(h)].detached = TRUE]]
    ELSE [ok |-> FALSE, lasterr |-> ERROR_INVALID_HANDLE, tab |-> tab]

\* WaitForSingleObject on a thread handle
WaitForThread(tab, h, t, dwMilliseconds) ==
    IF ~ValidThreadHandle(tab, h)
    THEN [blocks |-> FALSE, status |-> WAIT_FAILED, lasterr |-> ERROR_INVALID_HANDLE,
          tab |-> tab]
    ELSE IF HandleThread(h, t) # t /\ tab[HandleThread(h, t)].st = "term"
    THEN [blocks |-> FALSE, status |-> WAIT_OBJECT_0, lasterr |-> 0,
          tab |-> [tab EXCEPT ![HandleThread(h, t)].joined = TRUE]]
    ELSE IF dwMilliseconds = INFINITE
    THEN [blocks |-> TRUE, status |-> WAIT_OBJECT_0, lasterr |-> 0, tab |-> tab]
    ELSE [blocks |-> FALSE, status |-> WAIT_TIMEOUT, lasterr |-> 0, tab |-> tab]

(***************************************************************************)
(* The library.  Every function has one operator for the __unix__ branch   *)
(* of its body and one for the _WIN32 branch; e is the caller's errno      *)
(* before the call.  Every result carries rc (the value returned, NoArg    *)
(* for a void function), errno (errno after the call) and nat (the local   *)
(* `value` / `status` of the body as an int, NoArg when no native call was *)
(* made or it returned no status).                                         *)
(***************************************************************************)
thrd_create_unix(tab, slot, i, fail, wrote, e) ==
    LET n == pthread_create(tab, slot, i, fail, wrote) IN
    IF n.value # 0
    THEN [rc |-> thrd_error, errno |-> n.value, nat |-> n.value, tab |-> n.tab,
          thr |-> n.thr]
    ELSE [rc |-> thrd_success, errno |-> e, nat |-> n.value, tab |-> n.tab,
          thr |-> n.thr]

\* what thrd_create does in the creator once CreateThread has returned thr:
\* the store into *thread, then the test of the handle
thrd_create_win32_store(thr, lasterr, e) ==
    IF thr = NULL
    THEN [rc |-> thrd_error, errno |-> lasterr, nat |-> NoArg, thr |-> thr]
    ELSE [rc |-> thrd_success, errno |-> e, nat |-> NoArg, thr |-> thr]

thrd_create_win32(tab, slot, i, fail, e) ==
    LET n == CreateThread(tab, i, fail)
        r == thrd_create_win32_store(n.thr, n.lasterr, e)
    IN  [rc |-> r.rc, errno |-> r.errno, nat |-> r.nat, tab |-> n.tab, thr |-> r.thr]

thrd_create(be, tab, slot, i, fail, wrote, e) ==
    IF be = "unix"
    THEN thrd_create_unix(tab, slot, i, fail, wrote, e)
    ELSE thrd_create_win32(tab, slot, i, fail, e)

thrd_current(be, t) ==
    IF be = "unix" THEN pthread_self(t) ELSE GetCurrentThread

thrd_detach_unix(tab, h, e) ==
    LET n == pthread_detach(tab, h) IN
    IF n.value # 0
    THEN [rc |-> thrd_error, errno |-> n.value, nat |-> n.value, tab |-> n.tab]
    ELSE [rc |-> thrd_success, errno |-> e, nat |-> n.value, tab |-> n.tab]

thrd_detach_win32(tab, h, e) ==
    LET n == CloseThreadHandle(tab, h) IN
    IF ~n.ok
    THEN [rc |-> thrd_error, errno |-> n.lasterr, nat |-> NoArg, tab |-> n.tab]
    ELSE [rc |-> thrd_success, errno |-> e, nat |-> NoArg, tab |-> n.tab]

thrd_detach(be, tab, h, e) ==
    IF be = "unix" THEN thrd_detach_unix(tab, h, e) ELSE thrd_detach_win32(tab, h, e)

thrd_equal_unix(lhs, rhs, e) ==
    [rc |-> IF lhs = rhs THEN 1 ELSE 0, errno |-> e, nat |-> NoArg]

thrd_equal_win32(tab, lhs, rhs, t, e) ==
    LET lhsValue == GetThreadId(tab, lhs, t)
        rhsValue == GetThreadId(tab, rhs, t)
    IN  IF lhsValue.id = 0
        THEN [rc |-> thrd_error, errno |-> lhsValue.lasterr, nat |-> NoArg]
        ELSE IF rhsValue.id = 0
        THEN [rc |-> thrd_error, errno |-> rhsValue.lasterr, nat |-> NoArg]
        ELSE [rc |-> IF lhsValue.id = rhsValue.id THEN 1 ELSE 0, errno |-> e,
              nat |-> NoArg]

thrd_equal(be, tab, lhs, rhs, t, e) ==
    IF be = "unix"
    THEN thrd_equal_unix(lhs, rhs, e)
    ELSE thrd_equal_win32(tab, lhs, rhs, t, e)

\* the thread table after thread t called thrd_exit(res): the unix build hands
\* pthread_exit the address of the parameter, the win32 build the value
thrd_exit(be, tab, t, res) ==
    IF be = "unix"
    THEN [tab EXCEPT ![t].st = "term", ![t].how = "exit", ![t].res = res,
                     ![t].isAddr = TRUE, ![t].code = 0]
    ELSE [tab EXCEPT ![t].st = "term", ![t].how = "exit", ![t].res = res,
                     ![t].isAddr = FALSE, ![t].code = ToInt(ToDword(res))]

\* the thread table after the entry function of thread t returned v: it runs
\* as the native start routine it was cast to, so v is the native result
start_routine_return(be, tab, t, v) ==
    IF be = "unix"
    THEN [tab EXCEPT ![t].st = "term", ![t].how = "return", ![t].res = v,
                     ![t].isAddr = FALSE, ![t].code = v]
    ELSE [tab EXCEPT ![t].st = "term", ![t].how = "return", ![t].res = v,
                     ![t].isAddr = FALSE, ![t].code = ToInt(ToDword(v))]

\* the mutex after thread t ended: a win32 mutex it owns becomes abandoned, a
\* pthread mutex stays locked
thread_end_mutex(be, m, t) ==
    IF be = "win32" /\ m.valid /\ m.owner = t
    THEN [m EXCEPT !.owner = NoOwner, !.count = 0, !.abandoned = TRUE]
    ELSE m

\* hasRes: res is not a null pointer; out: the int res points to.
\* pthread_join is handed the address of the parameter res itself, so the exit
\* value overwrites the local pointer and *res is not written
thrd_join_unix(tab, h, t, hasRes, out, e) ==
    LET n == pthread_join(tab, h, t) IN
    IF n.blocks
    THEN [blocks |-> TRUE, rc |-> thrd_success, errno |-> e, nat |-> NoArg,
          tab |-> tab, out |-> out]
    ELSE IF n.value # 0
    THEN [blocks |-> FALSE, rc |-> thrd_error, errno |-> n.value, nat |-> n.value,
          tab |-> n.tab, out |-> out]
    ELSE [blocks |-> FALSE, rc |-> thrd_success, errno |-> e, nat |-> n.value,
          tab |-> n.tab, out |-> out]

\* *res receives the status of the wait
thrd_join_win32(tab, h, t, hasRes, out, e) ==
    LET n == WaitForThread(tab, h, t, INFINITE) IN
    IF n.blocks
    THEN [blocks |-> TRUE, rc |-> thrd_success, errno |-> e, nat |-> NoArg,
          tab |-> tab, out |-> out]
    ELSE LET written == IF hasRes THEN ToInt(n.status) ELSE out IN
         IF n.status # WAIT_OBJECT_0
         THEN [blocks |-> FALSE, rc |-> thrd_error,
               errno |-> IF n.status = WAIT_FAILED THEN n.lasterr ELSE ToInt(n.status),
               nat |-> ToInt(n.status), tab |-> n.tab, out |-> written]
         ELSE [blocks |-> FALSE, rc |-> thrd_success, errno |-> e,
               nat |-> ToInt(n.status), tab |-> n.tab, out |-> written]

thrd_join(be, tab, h, t, hasRes, out, e) ==
    IF be = "unix"
    THEN thrd_join_unix(tab, h, t, hasRes, out, e)
    ELSE thrd_join_win32(tab, h, t, hasRes, out, e)

\* pthread_yield is sched_yield, which always returns 0; SwitchToThread's result
\* is not read
thrd_yield(be, e) == [rc |-> NoArg, errno |-> e, nat |-> IF be = "unix" THEN 0 ELSE NoArg]

mtx_destroy_unix(m, e) ==
    LET n == pthread_mutex_destroy(m) IN
    IF n.value # 0
    THEN [rc |-> NoArg, errno |-> n.value, nat |-> n.value, mtx |-> n.mtx]
    ELSE [rc |-> NoArg, errno |-> e, nat |-> n.value, mtx |-> n.mtx]

mtx_destroy_win32(m, e) ==
    LET n == CloseMutexHandle(m) IN
    IF ~n.ok
    THEN [rc |-> NoArg, errno |-> n.lasterr, nat |-> NoArg, mtx |-> n.mtx]
    ELSE [rc |-> NoArg, errno |-> e, nat |-> NoArg, mtx |-> n.mtx]

mtx_destroy(be, m, e) ==
    IF be = "unix" THEN mtx_destroy_unix(m, e) ELSE mtx_destroy_win32(m, e)

\* mtx_init_unix without the pthread_mutexattr_settype call: the attribute
\* stays at its default and the mutex is not recursive
mtx_init_unix_default_attr(m, type, fail, e) ==
    IF type = BitOr(mtx_plain, mtx_recursive) \/ type = mtx_plain
    THEN LET n == pthread_mutex_init(m, FALSE, fail) IN
         IF n.value # 0
         THEN [rc |-> thrd_error, errno |-> n.value, nat |-> n.value, mtx |-> n.mtx]
         ELSE [rc |-> thrd_success, errno |-> e, nat |-> n.value,
               mtx |-> [n.mtx EXCEPT !.type = type]]
    ELSE [rc |-> thrd_error, errno |-> EINVAL, nat |-> NoArg, mtx |-> m]

\* mtx_init_unix testing only the mtx_recursive bit of the type: every type that
\* lacks it makes a plain mutex
mtx_init_unix_masked(m, type, fail, e) ==
    LET n == pthread_mutex_init(m, BitAnd(type, mtx_recursive) = mtx_recursive, fail) IN
    IF n.value # 0
    THEN [rc |-> thrd_error, errno |-> n.value, nat |-> n.value, mtx |-> n.mtx]
    ELSE [rc |-> thrd_success, errno |-> e, nat |-> n.value,
          mtx |-> [n.mtx EXCEPT !.type = type]]

mtx_init_unix(m, type, fail, e) ==
    IF type = BitOr(mtx_plain, mtx_recursive) \/ type = mtx_plain
    THEN LET n == pthread_mutex_init(m, type = BitOr(mtx_plain, mtx_recursive), fail) IN
         IF n.value # 0
         THEN [rc |-> thrd_error, errno |-> n.value, nat |-> n.value, mtx |-> n.mtx]
         ELSE [rc |-> thrd_success, errno |-> e, nat |-> n.value,
               mtx |-> [n.mtx EXCEPT !.type = type]]
    ELSE [rc |-> thrd_error, errno |-> EINVAL, nat |-> NoArg, mtx |-> m]

\* the test of the type holds for every type, since no type equals both values
mtx_init_win32(m, type, t, fail, e) ==
    IF type # mtx_plain \/ type # BitOr(mtx_plain, mtx_recursive)
    THEN [rc |-> thrd_error, errno |-> e, nat |-> NoArg, mtx |-> m]
    ELSE LET owner == BitAnd(type, mtx_recursive) = mtx_recursive
             n == CreateMutex(m, owner, t, fail)
         IN  IF ~n.ok
             THEN [rc |-> thrd_error, errno |-> n.lasterr, nat |-> NoArg, mtx |-> n.mtx]
             ELSE [rc |-> thrd_success, errno |-> e, nat |-> NoArg,
                   mtx |-> [n.mtx EXCEPT !.type = type]]

mtx_init(be, m, type, t, fail, e) ==
    IF be = "unix" THEN mtx_init_unix(m, type, fail, e) ELSE mtx_init_win32(m, type, t, fail, e)

mtx_lock_unix(m, t, e) ==
    LET n == pthread_mutex_lock(m, t) IN
    IF n.blocks
    THEN [blocks |-> TRUE, rc |-> thrd_success, errno |-> e, nat |-> NoArg, mtx |-> m]
    ELSE IF n.value # 0
    THEN [blocks |-> FALSE, rc |-> thrd_error, errno |-> n.value, nat |-> n.value,
          mtx |-> n.mtx]
    ELSE [blocks |-> FALSE, rc |-> thrd_success, errno |-> e, nat |-> n.value,
          mtx |-> n.mtx]

mtx_lock_win32(m, t, e) ==
    LET n == WaitForMutex(m, t, INFINITE) IN
    IF n.blocks
    THEN [blocks |-> TRUE, rc |-> thrd_success, errno |-> e, nat |-> NoArg, mtx |-> m]
    ELSE IF n.status # WAIT_OBJECT_0
    THEN [blocks |-> FALSE, rc |-> thrd_error,
          errno |-> IF n.status = WAIT_FAILED THEN n.lasterr ELSE ToInt(n.status),
          nat |-> ToInt(n.status), mtx |-> n.mtx]
    ELSE [blocks |-> FALSE, rc |-> thrd_success, errno |-> e, nat |-> ToInt(n.status),
          mtx |-> n.mtx]

mtx_lock(be, m, t, e) ==
    IF be = "unix" THEN mtx_lock_unix(m, t, e) ELSE mtx_lock_win32(m, t, e)

\* mtx_trylock_unix with the EBUSY test dropped: a refusal is reported as success
mtx_trylock_unix_busy_ok(m, t, e) ==
    LET n == pthread_mutex_trylock(m, t) IN
    IF n.value # 0 /\ n.value # EBUSY
    THEN [blocks |-> FALSE, rc |-> thrd_error, errno |-> n.value, nat |-> n.value,
          mtx |-> n.mtx]
    ELSE [blocks |-> FALSE, rc |-> thrd_success, errno |-> e, nat |-> n.value,
          mtx |-> n.mtx]

\* mtx_trylock_unix with the test of value inverted: an acquisition is reported
\* as thrd_busy
mtx_trylock_unix_inverted(m, t, e) ==
    LET n == pthread_mutex_trylock(m, t) IN
    IF n.value = 0
    THEN [blocks |-> FALSE, rc |-> thrd_busy, errno |-> n.value, nat |-> n.value,
          mtx |-> n.mtx]
    ELSE [blocks |-> FALSE, rc |-> thrd_success, errno |-> e, nat |-> n.value,
          mtx |-> n.mtx]

mtx_trylock_unix(m, t, e) ==
    LET n == pthread_mutex_trylock(m, t) IN
    IF n.value # 0
    THEN [blocks |-> FALSE, rc |-> IF n.value = EBUSY THEN thrd_busy ELSE thrd_error,
          errno |-> n.value, nat |-> n.value, mtx |-> n.mtx]
    ELSE [blocks |-> FALSE, rc |-> thrd_success, errno |-> e, nat |-> n.value,
          mtx |-> n.mtx]

\* the wait is made with INFINITE, as in mtx_lock
mtx_trylock_win32(m, t, e) ==
    LET n == WaitForMutex(m, t, INFINITE) IN
    IF n.blocks
    THEN [blocks |-> TRUE, rc |-> thrd_success, errno |-> e, nat |-> NoArg, mtx |-> m]
    ELSE IF n.status # WAIT_OBJECT_0
    THEN IF n.status = WAIT_TIMEOUT
         THEN [blocks |-> FALSE, rc |-> thrd_busy, errno |-> ToInt(n.status),
               nat |-> ToInt(n.status), mtx |-> n.mtx]
         ELSE IF n.status = WAIT_FAILED
         THEN [blocks |-> FALSE, rc |-> thrd_error, errno |-> n.lasterr,
               nat |-> ToInt(n.status), mtx |-> n.mtx]
         ELSE [blocks |-> FALSE, rc |-> thrd_error, errno |-> ToInt(n.status),
               nat |-> ToInt(n.status), mtx |-> n.mtx]
    ELSE [blocks |-> FALSE, rc |-> thrd_success, errno |-> e, nat |-> ToInt(n.status),
          mtx |-> n.mtx]

mtx_trylock(be, m, t, e) ==
    IF be = "unix" THEN mtx_trylock_unix(m, t, e) ELSE mtx_trylock_win32(m, t, e)

\* mtx_unlock_unix storing value in errno before testing it: a success stores 0
mtx_unlock_unix_sets_errno(m, t, lax, e) ==
    LET n == pthread_mutex_unlock(m, t, lax) IN
    IF n.value # 0
    THEN [rc |-> thrd_error, errno |-> n.value, nat |-> n.value, mtx |-> n.mtx]
    ELSE [rc |-> thrd_success, errno |-> n.value, nat |-> n.value, mtx |-> n.mtx]

mtx_unlock_unix(m, t, lax, e) ==
    LET n == pthread_mutex_unlock(m, t, lax) IN
    IF n.value # 0
    THEN [rc |-> thrd_error, errno |-> n.value, nat |-> n.value, mtx |-> n.mtx]
    ELSE [rc |-> thrd_success, errno |-> e, nat |-> n.value, mtx |-> n.mtx]

mtx_unlock_win32(m, t, e) ==
    LET n == ReleaseMutex(m, t) IN
    IF ~n.ok
    THEN [rc |-> thrd_error, errno |-> n.lasterr, nat |-> NoArg, mtx |-> n.mtx]
    ELSE [rc |-> thrd_success, errno |-> e, nat |-> NoArg, mtx |-> n.mtx]

mtx_unlock(be, m, t, lax, e) ==
    IF be = "unix" THEN mtx_unlock_unix(m, t, lax, e) ELSE mtx_unlock_win32(m, t, e)

(***************************************************************************)
(* The program: threads calling the library.                               *)
(*   backend  the build, fixed for a run                                    *)
(*   mtx      the mutex object the caller's mtx_t names                     *)
(*   tab      the threads                                                   *)
(*   slot     slot[i] is the caller's thrd_t that thrd_create fills for i   *)
(*   errno    errno[t] is the last-error slot of thread t (errno and       *)
(*            GetLastError() are thread-local)                             *)
(*   call     the blocking call a thread is inside, op "none" otherwise     *)
(*   ret      the call that returned last: caller, function, result, the    *)
(*            body's native status and two arguments                        *)
(*   out      the int whose address is passed to thrd_join as res           *)
(*   held     held[t] counts the mtx_lock and mtx_trylock calls of t that   *)
(*            returned thrd_success and that t has not yet matched with a   *)
(*            mtx_unlock that returned thrd_success                         *)
(*   counter, reg, pc  the shared counter scenario (SpecCounter): the shared *)
(*            int, the value each thread read from it, and where each       *)
(*            thread is in its code                                         *)
(***************************************************************************)
VARIABLES backend, mtx, tab, slot, errno, call, ret, out, held, counter, reg, pc

vars == <<backend, mtx, tab, slot, errno, call, ret, out, held, counter, reg, pc>>

\* what the caller's int holds before any join
OutInit == 0 - 7

NoCall == [op |-> "none", h |-> NULL, hasRes |-> FALSE, i |-> NoArg, lasterr |-> 0]

NoRet == [thr |-> NoArg, op |-> "none", rc |-> NoArg, nat |-> NoArg, a |-> NoArg,
          b |-> NoArg]

Returned(t, op, r, a, b) ==
    [thr |-> t, op |-> op, rc |-> r.rc, nat |-> r.nat, a |-> a, b |-> b]

\* thread t is executing user code, outside any library call
Running(t) ==
    /\ tab[t].st = "run"
    /\ call[t].op = "none"

Waiters == {t \in Threads : call[t].op \in {"mtx_lock", "mtx_trylock"}}

Joiners(i) == {t \in Threads : call[t].op = "thrd_join" /\ call[t].h = slot[i]
                                 /\ slot[i] # NULL}

\* a thrd_t the program can hold for thread a: the slot thrd_create filled, or
\* what thrd_current returned when a called it
HandlesOf(a) ==
    {thrd_current(backend, a)}
        \cup (IF a \in Created /\ tab[a].st # "none" /\ ~tab[a].detached
              THEN {slot[a]} ELSE {})

Init ==
    /\ backend \in Backends
    /\ mtx \in (IF backend = "win32" THEN {NoMutex, NativeMutex} ELSE {NoMutex})
    /\ tab = [t \in Threads |-> IF t = 0 THEN MainThread ELSE NoThread]
    /\ slot = [i \in Created |-> NULL]
    /\ errno = [t \in Threads |-> 0]
    /\ call = [t \in Threads |-> NoCall]
    /\ ret = NoRet
    /\ out = OutInit
    /\ held = [t \in Threads |-> 0]
    /\ counter = 0
    /\ reg = [t \in Threads |-> 0]
    /\ pc = [t \in Threads |-> IF t = 0 THEN "init" ELSE "idle"]

Scenario == <<counter, reg, pc>>

(***************************************************************************)
(* Threads.                                                                *)
(***************************************************************************)
\* thread 0 calls thrd_create(&slot[i], func, arg); fail: the system cannot
\* make another thread, and then the unix build leaves slot[i] as it was or
\* holding a value that names no thread.  On unix the C library stores the
\* descriptor before the new thread starts, and the call is one step.  On
\* win32 the new thread can run as soon as CreateThread has made it, before
\* the creator stores the handle: this step is CreateThread alone, and
\* ThrdCreateStore is the rest of the call.
ThrdCreate(i, fail) ==
    /\ Running(0)
    /\ tab[i].st = "none"
    /\ \A j \in Created : j < i => tab[j].st # "none"
    /\ IF backend = "unix"
       THEN /\ \E wrote \in BOOLEAN :
                  LET r == thrd_create(backend, tab, slot[i], i, fail, wrote, errno[0]) IN
                  /\ tab' = r.tab
                  /\ slot' = [slot EXCEPT ![i] = r.thr]
                  /\ errno' = [errno EXCEPT ![0] = r.errno]
                  /\ ret' = Returned(0, "thrd_create", r, i, NoArg)
            /\ UNCHANGED call
       ELSE /\ LET n == CreateThread(tab, i, fail) IN
                  /\ tab' = n.tab
                  /\ call' = [call EXCEPT ![0] = [NoCall EXCEPT !.op = "thrd_create",
                                                                !.h = n.thr, !.i = i,
                                                                !.lasterr = n.lasterr]]
            /\ UNCHANGED <<slot, errno, ret>>
    /\ UNCHANGED <<backend, mtx, out, held, Scenario>>

\* win32: thread 0, back from CreateThread, stores the handle into slot[i],
\* sets errno when the handle is NULL and returns
ThrdCreateStore ==
    /\ backend = "win32"
    /\ call[0].op = "thrd_create"
    /\ LET r == thrd_create_win32_store(call[0].h, call[0].lasterr, errno[0]) IN
       /\ slot' = [slot EXCEPT ![call[0].i] = r.thr]
       /\ errno' = [errno EXCEPT ![0] = r.errno]
       /\ ret' = Returned(0, "thrd_create", r, call[0].i, NoArg)
    /\ call' = [call EXCEPT ![0] = NoCall]
    /\ UNCHANGED <<backend, mtx, tab, out, held, Scenario>>

\* the entry function of thread t returns v
ThreadReturn(t, v) ==
    /\ t \in Created
    /\ Running(t)
    /\ tab' = start_routine_return(backend, tab, t, v)
    /\ mtx' = thread_end_mutex(backend, mtx, t)
    /\ UNCHANGED <<backend, slot, errno, call, ret, out, held, Scenario>>

\* thread t calls thrd_exit(v)
ThrdExit(t, v) ==
    /\ t \in Created
    /\ Running(t)
    /\ tab' = thrd_exit(backend, tab, t, v)
    /\ mtx' = thread_end_mutex(backend, mtx, t)
    /\ ret' = [thr |-> t, op |-> "thrd_exit", rc |-> NoArg, nat |-> NoArg, a |-> v,
               b |-> NoArg]
    /\ UNCHANGED <<backend, slot, errno, call, out, held, Scenario>>

\* thread 0 calls thrd_detach(slot[i]) on a thread it has neither detached nor
\* joined; on win32 also on the NULL handle of a thread that was not created
ThrdDetach(i) ==
    /\ Running(0)
    /\ ~tab[i].detached /\ ~tab[i].joined
    /\ Joiners(i) = {}
    /\ tab[i].st # "none" \/ backend = "win32"
    /\ LET r == thrd_detach(backend, tab, slot[i], errno[0]) IN
       /\ tab' = r.tab
       /\ errno' = [errno EXCEPT ![0] = r.errno]
       /\ ret' = Returned(0, "thrd_detach", r, i, NoArg)
    /\ UNCHANGED <<backend, mtx, slot, call, out, held, Scenario>>

\* thread 0 calls thrd_join(slot[i], res) with res = &out or res = NULL, or
\* thread i calls thrd_join(slot[i], NULL) on itself
ThrdJoinCall(t, i, hasRes) ==
    /\ t \in {0, i}
    /\ t = i => ~hasRes
    /\ Running(t)
    /\ ~tab[i].detached /\ ~tab[i].joined
    /\ Joiners(i) = {}
    /\ tab[i].st # "none" \/ backend = "win32"
    /\ call' = [call EXCEPT ![t] = [NoCall EXCEPT !.op = "thrd_join", !.h = slot[i],
                                                    !.hasRes = hasRes]]
    /\ UNCHANGED <<backend, mtx, tab, slot, errno, ret, out, held, Scenario>>

ThrdJoinReturn(t) ==
    /\ call[t].op = "thrd_join"
    /\ LET r == thrd_join(backend, tab, call[t].h, t, call[t].hasRes, out, errno[t]) IN
       /\ ~r.blocks
       /\ tab' = r.tab
       /\ out' = r.out
       /\ errno' = [errno EXCEPT ![t] = r.errno]
       /\ ret' = Returned(t, "thrd_join", r, ThreadOf(call[t].h),
                          IF call[t].hasRes THEN 1 ELSE 0)
    /\ call' = [call EXCEPT ![t] = NoCall]
    /\ UNCHANGED <<backend, mtx, slot, held, Scenario>>

\* thread t calls thrd_equal(lhs, rhs) with a handle of itself and a handle of
\* the live thread b
ThrdEqual(t, b) ==
    /\ Running(t)
    /\ tab[b].st = "run"
    /\ \E lhs \in HandlesOf(t), rhs \in HandlesOf(b) :
          LET r == thrd_equal(backend, tab, lhs, rhs, t, errno[t]) IN
          /\ errno' = [errno EXCEPT ![t] = r.errno]
          /\ ret' = Returned(t, "thrd_equal", r, b, NoArg)
    /\ UNCHANGED <<backend, mtx, tab, slot, call, out, held, Scenario>>

\* win32: thread 0 calls thrd_equal with its own handle and slot[i], a thrd_t
\* that names no thread (NULL after a failed thrd_create, or a handle that
\* thrd_detach closed); swap: slot[i] is the left argument
ThrdEqualClosed(i, swap) ==
    /\ Running(0)
    /\ backend = "win32"
    /\ ~ValidThreadHandle(tab, slot[i])
    /\ LET own == thrd_current(backend, 0)
           r == IF swap
                THEN thrd_equal(backend, tab, slot[i], own, 0, errno[0])
                ELSE thrd_equal(backend, tab, own, slot[i], 0, errno[0])
       IN  /\ errno' = [errno EXCEPT ![0] = r.errno]
           /\ ret' = Returned(0, "thrd_equal", r, i, IF swap THEN 1 ELSE 0)
    /\ UNCHANGED <<backend, mtx, tab, slot, call, out, held, Scenario>>

ThrdYield(t) ==
    /\ Running(t)
    /\ LET r == thrd_yield(backend, errno[t]) IN
       /\ errno' = [errno EXCEPT ![t] = r.errno]
       /\ ret' = Returned(t, "thrd_yield", r, NoArg, NoArg)
    /\ UNCHANGED <<backend, mtx, tab, slot, call, out, held, Scenario>>

(***************************************************************************)
(* Mutex.                                                                  *)
(***************************************************************************)
\* thread 0 calls mtx_init(&mtx, type); on unix only on a mutex that is not
\* initialised
MtxInit(type, fail) ==
    /\ Running(0)
    /\ backend = "unix" => ~mtx.valid
    /\ LET r == mtx_init(backend, mtx, type, 0, fail, errno[0]) IN
       /\ mtx' = r.mtx
       /\ errno' = [errno EXCEPT ![0] = r.errno]
       /\ ret' = Returned(0, "mtx_init", r, type, NoArg)
    /\ UNCHANGED <<backend, tab, slot, call, out, held, Scenario>>

\* thread 0 calls mtx_destroy(&mtx) while no thread holds or awaits the mutex
MtxDestroy ==
    /\ Running(0)
    /\ mtx.owner = NoOwner
    /\ Waiters = {}
    /\ backend = "unix" => mtx.valid
    /\ LET r == mtx_destroy(backend, mtx, errno[0]) IN
       /\ mtx' = r.mtx
       /\ errno' = [errno EXCEPT ![0] = r.errno]
       /\ ret' = Returned(0, "mtx_destroy", r, NoArg, NoArg)
    /\ UNCHANGED <<backend, tab, slot, call, out, held, Scenario>>

\* the mutex was made by mtx_init(mtx_plain | mtx_recursive)
MadeRecursive == mtx.type = BitOr(mtx_plain, mtx_recursive)

\* the preconditions of locking: on unix the mutex is initialised and, when the
\* caller holds it, was made recursive
MayAcquire(t) ==
    /\ backend = "unix" => mtx.valid /\ (mtx.owner = t => MadeRecursive)
    /\ mtx.owner = t => mtx.count < MaxHold

MtxLockCall(t) ==
    /\ Running(t)
    /\ MayAcquire(t)
    /\ call' = [call EXCEPT ![t] = [NoCall EXCEPT !.op = "mtx_lock"]]
    /\ UNCHANGED <<backend, mtx, tab, slot, errno, ret, out, held, Scenario>>

MtxLockReturn(t) ==
    /\ call[t].op = "mtx_lock"
    /\ LET r == mtx_lock(backend, mtx, t, errno[t]) IN
       /\ ~r.blocks
       /\ mtx' = r.mtx
       /\ errno' = [errno EXCEPT ![t] = r.errno]
       /\ ret' = Returned(t, "mtx_lock", r, NoArg, NoArg)
       /\ held' = [held EXCEPT ![t] = IF r.rc = thrd_success THEN @ + 1 ELSE @]
    /\ call' = [call EXCEPT ![t] = NoCall]
    /\ UNCHANGED <<backend, tab, slot, out, Scenario>>

MtxTrylockCall(t) ==
    /\ Running(t)
    /\ backend = "unix" => mtx.valid
    /\ mtx.owner = t => mtx.count < MaxHold
    /\ call' = [call EXCEPT ![t] = [NoCall EXCEPT !.op = "mtx_trylock"]]
    /\ UNCHANGED <<backend, mtx, tab, slot, errno, ret, out, held, Scenario>>

MtxTrylockReturn(t) ==
    /\ call[t].op = "mtx_trylock"
    /\ LET r == mtx_trylock(backend, mtx, t, errno[t]) IN
       /\ ~r.blocks
       /\ mtx' = r.mtx
       /\ errno' = [errno EXCEPT ![t] = r.errno]
       /\ ret' = Returned(t, "mtx_trylock", r, NoArg, NoArg)
       /\ held' = [held EXCEPT ![t] = IF r.rc = thrd_success THEN @ + 1 ELSE @]
    /\ call' = [call EXCEPT ![t] = NoCall]
    /\ UNCHANGED <<backend, tab, slot, out, Scenario>>

\* thread t calls mtx_unlock(&mtx); on unix it holds the mutex, or the mutex was
\* made recursive (which reports a caller that does not hold it)
MtxUnlock(t) ==
    /\ Running(t)
    /\ backend = "unix" => mtx.valid /\ (mtx.owner = t \/ MadeRecursive)
    /\ \E lax \in BOOLEAN :
          LET r == mtx_unlock(backend, mtx, t, lax, errno[t]) IN
          /\ mtx' = r.mtx
          /\ errno' = [errno EXCEPT ![t] = r.errno]
          /\ ret' = Returned(t, "mtx_unlock", r, NoArg, NoArg)
          /\ held' = [held EXCEPT ![t] = IF r.rc = thrd_success /\ @ > 0 THEN @ - 1
                                         ELSE @]
    /\ UNCHANGED <<backend, tab, slot, call, out, Scenario>>

(***************************************************************************)
(* Spec: a program whose threads 0..NLockers share the mutex.  Thread 0    *)
(* creates the others and initialises and destroys the mutex; every thread  *)
(* locks, tries to lock and unlocks; a created thread may end at any time.  *)
(* In the win32 build mtx_t is a HANDLE and mtx_lock, mtx_trylock,          *)
(* mtx_unlock and mtx_destroy hand *mutex to the native calls, so the       *)
(* program's mtx_t names either no object or a kernel mutex that            *)
(* CreateMutex made (Init).                                                 *)
(***************************************************************************)
Next ==
    \/ \E i \in Lockers \ {0}, fail \in BOOLEAN : ThrdCreate(i, fail)
    \/ ThrdCreateStore
    \/ \E t \in Lockers \ {0}, v \in Vals : ThreadReturn(t, v)
    \/ \E type \in Types, fail \in BOOLEAN : MtxInit(type, fail)
    \/ MtxDestroy
    \/ \E t \in Lockers : MtxLockCall(t)
    \/ \E t \in Lockers : MtxLockReturn(t)
    \/ \E t \in Lockers : MtxTrylockCall(t)
    \/ \E t \in Lockers : MtxTrylockReturn(t)
    \/ \E t \in Lockers : MtxUnlock(t)

Spec == Init /\ [][Next]_vars

(***************************************************************************)
(* SpecThreads: a program that creates, detaches, joins, compares and ends  *)
(* threads 1..NThreads and leaves the mutex alone.                          *)
(***************************************************************************)
NextThreads ==
    \/ \E i \in Created, fail \in BOOLEAN : ThrdCreate(i, fail)
    \/ ThrdCreateStore
    \/ \E t \in Created, v \in Vals : ThreadReturn(t, v)
    \/ \E t \in Created, v \in Vals : ThrdExit(t, v)
    \/ \E i \in Created : ThrdDetach(i)
    \/ \E t \in Threads, i \in Created, hasRes \in BOOLEAN : ThrdJoinCall(t, i, hasRes)
    \/ \E t \in Threads : ThrdJoinReturn(t)
    \/ \E t, b \in Threads : ThrdEqual(t, b)
    \/ \E i \in Created, swap \in BOOLEAN : ThrdEqualClosed(i, swap)
    \/ \E t \in Threads : ThrdYield(t)

\* the program has no mutex
InitThreads == Init /\ mtx = NoMutex

SpecThreads == InitThreads /\ [][NextThreads]_vars

\* SpecJoin: the part of that program that creates, ends, detaches and joins
\* threads, without the comparisons and the yields
NextJoin ==
    \/ \E i \in Created, fail \in BOOLEAN : ThrdCreate(i, fail)
    \/ ThrdCreateStore
    \/ \E t \in Created, v \in Vals : ThreadReturn(t, v)
    \/ \E t \in Created, v \in Vals : ThrdExit(t, v)
    \/ \E i \in Created : ThrdDetach(i)
    \/ \E t \in Threads, i \in Created, hasRes \in BOOLEAN : ThrdJoinCall(t, i, hasRes)
    \/ \E t \in Threads : ThrdJoinReturn(t)

SpecJoin == InitThreads /\ [][NextJoin]_vars

(***************************************************************************)
(* SpecCounter: the shared counter program.  Thread 0 makes a plain mutex   *)
(* with mtx_init, creates the threads 1..NThreads and joins them all; each  *)
(* created thread does mtx_lock, reads the counter, writes the value read   *)
(* plus one, does mtx_unlock and returns.  No result code is tested.        *)
(***************************************************************************)
InitCounter == Init /\ mtx = NoMutex

CounterInit ==
    /\ pc[0] = "init"
    /\ LET r == mtx_init(backend, mtx, mtx_plain, 0, FALSE, errno[0]) IN
       /\ mtx' = r.mtx
       /\ errno' = [errno EXCEPT ![0] = r.errno]
       /\ ret' = Returned(0, "mtx_init", r, mtx_plain, NoArg)
    /\ pc' = [pc EXCEPT ![0] = "create"]
    /\ UNCHANGED <<backend, tab, slot, call, out, held, counter, reg>>

\* thread 0 creates thread i, which starts at once; on win32 thread 0 has
\* still to store the handle (CounterStore)
CounterCreate(i) ==
    /\ pc[0] = "create"
    /\ tab[i].st = "none"
    /\ \A j \in Created : j < i => tab[j].st # "none"
    /\ IF backend = "unix"
       THEN /\ LET r == thrd_create(backend, tab, slot[i], i, FALSE, FALSE, errno[0]) IN
                  /\ tab' = r.tab
                  /\ slot' = [slot EXCEPT ![i] = r.thr]
                  /\ errno' = [errno EXCEPT ![0] = r.errno]
                  /\ ret' = Returned(0, "thrd_create", r, i, NoArg)
            /\ pc' = [pc EXCEPT ![i] = "lock",
                                ![0] = IF i = NThreads THEN "join" ELSE "create"]
            /\ UNCHANGED call
       ELSE /\ LET n == CreateThread(tab, i, FALSE) IN
                  /\ tab' = n.tab
                  /\ call' = [call EXCEPT ![0] = [NoCall EXCEPT !.op = "thrd_create",
                                                                !.h = n.thr, !.i = i,
                                                                !.lasterr = n.lasterr]]
            /\ pc' = [pc EXCEPT ![i] = "lock", ![0] = "store"]
            /\ UNCHANGED <<slot, errno, ret>>
    /\ UNCHANGED <<backend, mtx, out, held, counter, reg>>

CounterStore ==
    /\ pc[0] = "store"
    /\ LET r == thrd_create_win32_store(call[0].h, call[0].lasterr, errno[0]) IN
       /\ slot' = [slot EXCEPT ![call[0].i] = r.thr]
       /\ errno' = [errno EXCEPT ![0] = r.errno]
       /\ ret' = Returned(0, "thrd_create", r, call[0].i, NoArg)
    /\ call' = [call EXCEPT ![0] = NoCall]
    /\ pc' = [pc EXCEPT ![0] = IF call[0].i = NThreads THEN "join" ELSE "create"]
    /\ UNCHANGED <<backend, mtx, tab, out, held, counter, reg>>

CounterLock(w) ==
    /\ pc[w] = "lock"
    /\ LET r == mtx_lock(backend, mtx, w, errno[w]) IN
       /\ ~r.blocks
       /\ mtx' = r.mtx
       /\ errno' = [errno EXCEPT ![w] = r.errno]
       /\ ret' = Returned(w, "mtx_lock", r, NoArg, NoArg)
       /\ held' = [held EXCEPT ![w] = IF r.rc = thrd_success THEN @ + 1 ELSE @]
    /\ pc' = [pc EXCEPT ![w] = "read"]
    /\ UNCHANGED <<backend, tab, slot, call, out, counter, reg>>

CounterRead(w) ==
    /\ pc[w] = "read"
    /\ reg' = [reg EXCEPT ![w] = counter]
    /\ pc' = [pc EXCEPT ![w] = "write"]
    /\ UNCHANGED <<backend, mtx, tab, slot, errno, call, ret, out, held, counter>>

CounterWrite(w) ==
    /\ pc[w] = "write"
    /\ counter' = reg[w] + 1
    /\ pc' = [pc EXCEPT ![w] = "unlock"]
    /\ UNCHANGED <<backend, mtx, tab, slot, errno, call, ret, out, held, reg>>

CounterUnlock(w) ==
    /\ pc[w] = "unlock"
    /\ \E lax \in BOOLEAN :
          LET r == mtx_unlock(backend, mtx, w, lax, errno[w]) IN
          /\ mtx' = r.mtx
          /\ errno' = [errno EXCEPT ![w] = r.errno]
          /\ ret' = Returned(w, "mtx_unlock", r, NoArg, NoArg)
          /\ held' = [held EXCEPT ![w] = IF r.rc = thrd_success /\ @ > 0 THEN @ - 1
                                         ELSE @]
    /\ pc' = [pc EXCEPT ![w] = "return"]
    /\ UNCHANGED <<backend, tab, slot, call, out, counter, reg>>

CounterReturn(w) ==
    /\ pc[w] = "return"
    /\ tab' = start_routine_return(backend, tab, w, 0)
    /\ mtx' = thread_end_mutex(backend, mtx, w)
    /\ pc' = [pc EXCEPT ![w] = "done"]
    /\ UNCHANGED <<backend, slot, errno, call, ret, out, held, counter, reg>>

CounterJoin(i) ==
    /\ pc[0] = "join"
    /\ ~tab[i].joined
    /\ \A j \in Created : j < i => tab[j].joined
    /\ LET r == thrd_join(backend, tab, slot[i], 0, TRUE, out, errno[0]) IN
       /\ ~r.blocks
       /\ tab' = r.tab
       /\ out' = r.out
       /\ errno' = [errno EXCEPT ![0] = r.errno]
       /\ ret' = Returned(0, "thrd_join", r, i, 1)
    /\ pc' = [pc EXCEPT ![0] = IF i = NThreads THEN "done" ELSE "join"]
    /\ UNCHANGED <<backend, mtx, slot, call, held, counter, reg>>

NextCounter ==
    \/ CounterInit
    \/ \E i \in Created : CounterCreate(i)
    \/ CounterStore
    \/ \E w \in Created : CounterLock(w)
    \/ \E w \in Created : CounterRead(w)
    \/ \E w \in Created : CounterWrite(w)
    \/ \E w \in Created : CounterUnlock(w)
    \/ \E w \in Created : CounterReturn(w)
    \/ \E i \in Created : CounterJoin(i)

SpecCounter == InitCounter /\ [][NextCounter]_vars

\* the host scheduler runs every thread that can take a step: a thread that is
\* not inside a blocking call keeps moving, and a mtx_lock or thrd_join whose
\* native wait can end (the mutex stays free, the thread has ended) returns
FairCounter ==
    /\ WF_vars(CounterInit)
    /\ \A i \in Created : WF_vars(CounterCreate(i))
    /\ WF_vars(CounterStore)
    /\ \A w \in Created : WF_vars(CounterLock(w))
    /\ \A w \in Created : WF_vars(CounterRead(w))
    /\ \A w \in Created : WF_vars(CounterWrite(w))
    /\ \A w \in Created : WF_vars(CounterUnlock(w))
    /\ \A w \in Created : WF_vars(CounterReturn(w))
    /\ \A i \in Created : WF_vars(CounterJoin(i))

\* the counter program under that scheduler, from every state of Init: in the
\* win32 build also with an mtx_t that names a kernel mutex, which the failing
\* mtx_init leaves in place
SpecCounterFair == Init /\ [][NextCounter]_vars /\ FairCounter

(***************************************************************************)
(* SpecRelock: the counter program with threads that come back for the      *)
(* mutex.  After its increment and mtx_unlock a created thread may, any     *)
(* number of times before it returns, do mtx_lock and mtx_unlock again.     *)
(* Every thread that acquires the mutex calls mtx_unlock; the scheduler is  *)
(* fair as in FairCounter.  Which of the threads inside mtx_lock gets a     *)
(* mutex that becomes free is not decided by the library: pthread_mutex_lock *)
(* and WaitForSingleObject promise no order among the waiters.              *)
(***************************************************************************)
\* thread w decides to take the mutex once more instead of returning
CounterAgain(w) ==
    /\ pc[w] = "return"
    /\ pc' = [pc EXCEPT ![w] = "relock"]
    /\ UNCHANGED <<backend, mtx, tab, slot, errno, call, ret, out, held, counter, reg>>

CounterRelock(w) ==
    /\ pc[w] = "relock"
    /\ LET r == mtx_lock(backend, mtx, w, errno[w]) IN
       /\ ~r.blocks
       /\ mtx' = r.mtx
       /\ errno' = [errno EXCEPT ![w] = r.errno]
       /\ ret' = Returned(w, "mtx_lock", r, NoArg, NoArg)
       /\ held' = [held EXCEPT ![w] = IF r.rc = thrd_success THEN @ + 1 ELSE @]
    /\ pc' = [pc EXCEPT ![w] = "reunlock"]
    /\ UNCHANGED <<backend, tab, slot, call, out, counter, reg>>

CounterReunlock(w) ==
    /\ pc[w] = "reunlock"
    /\ \E lax \in BOOLEAN :
          LET r == mtx_unlock(backend, mtx, w, lax, errno[w]) IN
          /\ mtx' = r.mtx
          /\ errno' = [errno EXCEPT ![w] = r.errno]
          /\ ret' = Returned(w, "mtx_unlock", r, NoArg, NoArg)
          /\ held' = [held EXCEPT ![w] = IF r.rc = thrd_success /\ @ > 0 THEN @ - 1
                                         ELSE @]
    /\ pc' = [pc EXCEPT ![w] = "return"]
    /\ UNCHANGED <<backend, tab, slot, call, out, counter, reg>>

NextRelock ==
    \/ CounterInit
    \/ \E i \in Created : CounterCreate(i)
    \/ CounterStore
    \/ \E w \in Created : CounterLock(w)
    \/ \E w \in Created : CounterRead(w)
    \/ \E w \in Created : CounterWrite(w)
    \/ \E w \in Created : CounterUnlock(w)
    \/ \E w \in Created : CounterAgain(w)
    \/ \E w \in Created : CounterRelock(w)
    \/ \E w \in Created : CounterReunlock(w)
    \/ \E w \in Created : CounterReturn(w)
    \/ \E i \in Created : CounterJoin(i)

\* the scheduler of FairCounter; a thread that has the choice is not made to
\* come back for the mutex, and a thread that stays at the choice returns
FairRelock ==
    /\ FairCounter
    /\ \A w \in Created : WF_vars(CounterRelock(w))
    /\ \A w \in Created : WF_vars(CounterReunlock(w))

SpecRelock == Init /\ [][NextRelock]_vars /\ FairRelock

(***************************************************************************)
(* Properties.                                                             *)
(***************************************************************************)
\* the live threads that are between a successful mtx_lock or mtx_trylock and
\* the matching mtx_unlock
Holders == {t \in Threads : tab[t].st = "run" /\ held[t] > 0}

\* the mutex is owned by a thread other than t
HeldByOther(t) == mtx.valid /\ mtx.owner # NoOwner /\ mtx.owner # t

\* C1: mutual exclusion. At most one thread at a time is between a successful
\* mtx_lock / mtx_trylock and its matching mtx_unlock.
C1_MutualExclusion == Cardinality(Holders) <= 1

\* C1 witness: a thread holds the mutex while another thread is inside mtx_lock
\* or mtx_trylock on it.
C1_Witness ==
    \E a, b \in Threads :
        /\ a # b
        /\ a \in Holders
        /\ call[b].op \in {"mtx_lock", "mtx_trylock"}

\* C2: mtx_trylock never blocks. Whenever a thread is inside mtx_trylock and
\* another thread holds the mutex, the call returns at once, with thrd_busy, on
\* both builds.
C2_TrylockNeverBlocks ==
    \A t \in Threads :
        call[t].op = "mtx_trylock" /\ HeldByOther(t) =>
            LET r == mtx_trylock(backend, mtx, t, errno[t]) IN
            ~r.blocks /\ r.rc = thrd_busy

\* C2 on the unix build alone
C2_TrylockNeverBlocksUnix == backend = "unix" => C2_TrylockNeverBlocks

\* a thread is inside mtx_trylock while another thread holds the mutex
C2_Witness ==
    \E t \in Threads : call[t].op = "mtx_trylock" /\ HeldByOther(t) /\ backend = "unix"

\* C3: a thrd_join with a non-null res on a thread whose entry function returned
\* v returns thrd_success and leaves v in the int res points to, on both builds.
C3_JoinStoresResult ==
    ret.op = "thrd_join" /\ ret.b = 1 /\ ret.a \in Created /\ ret.a # ret.thr
        /\ tab[ret.a].how = "return"
    => ret.rc = thrd_success /\ out = tab[ret.a].res

\* the first half of C3 alone: such a join returns thrd_success
C3_JoinSucceeds ==
    ret.op = "thrd_join" /\ ret.b = 1 /\ ret.a \in Created /\ ret.a # ret.thr
        /\ tab[ret.a].how = "return"
    => ret.rc = thrd_success

\* C9: thrd_exit(code) ends the calling thread, and a later successful thrd_join
\* on it with a non-null res leaves code in the int res points to, on both
\* builds.
C9_ExitCodeJoined ==
    /\ ret.op = "thrd_exit" => tab[ret.thr].st = "term"
    /\ ret.op = "thrd_join" /\ ret.b = 1 /\ ret.a \in Created /\ ret.rc = thrd_success
           /\ tab[ret.a].how = "exit"
       => out = tab[ret.a].res

\* the first half of C9 alone: thrd_exit ends the thread, which never runs again
C9_ExitTerminates ==
    [][\A t \in Created : tab[t].st = "term" => tab'[t].st = "term"]_vars

\* C10: thrd_equal on two handles of the calling thread returns a non-zero
\* value, and on a handle of the calling thread and a handle of another live
\* thread it returns 0.
C10_Equal ==
    ret.op = "thrd_equal" =>
        /\ ret.a = ret.thr => ret.rc # 0
        /\ ret.a # ret.thr => ret.rc = 0

\* the first half of C10 alone
C10_EqualSelf == ret.op = "thrd_equal" /\ ret.a = ret.thr => ret.rc # 0

\* the second half of C10 on the unix build alone
C10_EqualOtherUnix ==
    backend = "unix" /\ ret.op = "thrd_equal" /\ ret.a # ret.thr => ret.rc = 0

\* C4: round trip on a plain mutex by thread 0 without contention:
\* mtx_init(mtx_plain) on a mutex that is not initialised returns thrd_success
\* and makes the mutex, mtx_lock on the free mutex and mtx_unlock by its holder
\* return thrd_success, and mtx_destroy leaves no mutex object, on both builds.
C4_RoundTrip ==
    [][/\ MtxInit(mtx_plain, FALSE) /\ ~mtx.valid
            => ret'.rc = thrd_success /\ mtx'.valid
       /\ MtxLockReturn(0) /\ mtx.valid /\ mtx.owner = NoOwner
            => ret'.rc = thrd_success
       /\ MtxUnlock(0) /\ mtx.valid /\ mtx.owner = 0 /\ mtx.count = 1
            => ret'.rc = thrd_success /\ mtx'.owner = NoOwner
       /\ MtxDestroy /\ mtx.valid
            => ~mtx'.valid]_vars

\* C4 on the unix build alone
C4_RoundTripUnix ==
    [][backend = "unix" =>
       /\ MtxInit(mtx_plain, FALSE) /\ ~mtx.valid
            => ret'.rc = thrd_success /\ mtx'.valid
       /\ MtxLockReturn(0) /\ mtx.valid /\ mtx.owner = NoOwner
            => ret'.rc = thrd_success
       /\ MtxUnlock(0) /\ mtx.valid /\ mtx.owner = 0 /\ mtx.count = 1
            => ret'.rc = thrd_success /\ mtx'.owner = NoOwner
       /\ MtxDestroy /\ mtx.valid
            => ~mtx'.valid]_vars

\* some thread other than u is between its successful locks and unlocks
OtherHolds(u) == \E t \in Threads : t # u /\ held[t] >= 1

\* The behaviour of a mutex made by mtx_init(mtx_plain | mtx_recursive): a
\* thread that holds it locks it again with thrd_success; while a thread holds
\* it, once or twice, every other thread's mtx_lock blocks and mtx_trylock
\* returns thrd_busy; and when no thread holds it any more, mtx_lock and
\* mtx_trylock return thrd_success.
RecursiveBehaviour ==
    \A u \in Threads :
        mtx.valid /\ MadeRecursive /\ call[u].op \in {"mtx_lock", "mtx_trylock"} =>
            LET l == mtx_lock(backend, mtx, u, errno[u])
                y == mtx_trylock(backend, mtx, u, errno[u])
            IN  /\ call[u].op = "mtx_lock" /\ held[u] >= 1
                      => ~l.blocks /\ l.rc = thrd_success
                /\ call[u].op = "mtx_lock" /\ OtherHolds(u) => l.blocks
                /\ call[u].op = "mtx_trylock" /\ OtherHolds(u)
                      => ~y.blocks /\ y.rc = thrd_busy
                /\ call[u].op = "mtx_lock" /\ (\A t \in Threads : held[t] = 0)
                      => ~l.blocks /\ l.rc = thrd_success
                /\ call[u].op = "mtx_trylock" /\ (\A t \in Threads : held[t] = 0)
                      => ~y.blocks /\ y.rc = thrd_success

\* C5: mtx_init(mtx_plain | mtx_recursive) makes a mutex that its holder can
\* lock a second time with thrd_success and that no other thread acquires
\* (mtx_lock blocks, mtx_trylock returns thrd_busy) until the holder has
\* unlocked it as often as it locked it.
C5_Recursive ==
    /\ [][MtxInit(BitOr(mtx_plain, mtx_recursive), FALSE) /\ ~mtx.valid
            => ret'.rc = thrd_success /\ mtx'.valid
               /\ mtx'.type = BitOr(mtx_plain, mtx_recursive)]_vars
    /\ []RecursiveBehaviour

\* a thread locked the recursive mutex twice and unlocked it once, and another
\* thread is inside mtx_lock or mtx_trylock (unix build)
C5_Witness ==
    \E t, u \in Threads :
        /\ t # u
        /\ mtx.valid /\ MadeRecursive
        /\ ret.op = "mtx_unlock" /\ ret.thr = t /\ ret.rc = thrd_success
        /\ held[t] = 1 /\ mtx.owner = t
        /\ call[u].op \in {"mtx_lock", "mtx_trylock"}

\* the mutex types mtx_init supports
Supported == {mtx_plain, BitOr(mtx_plain, mtx_recursive)}

\* C7: for every type other than mtx_plain and mtx_plain | mtx_recursive,
\* mtx_init returns thrd_error and makes no mutex.
C7_InitRejects ==
    [][\A type \in Types \ Supported, fail \in BOOLEAN :
          MtxInit(type, fail) => ret'.rc = thrd_error /\ mtx' = mtx]_vars

\* C7 witness: mtx_init(mtx_timed) returned thrd_error.
C7_Witness == ret.op = "mtx_init" /\ ret.a = mtx_timed /\ ret.rc = thrd_error

\* C8: a mtx_trylock that returns thrd_busy leaves the mutex, and which thread
\* holds it how often, as they were.
C8_BusyUnchanged ==
    [][\A t \in Threads :
          MtxTrylockReturn(t) /\ ret'.rc = thrd_busy => mtx' = mtx /\ held' = held]_vars

\* C8 witness: mtx_trylock returned thrd_busy to a thread while another thread
\* holds the mutex.
C8_Witness ==
    /\ ret.op = "mtx_trylock" /\ ret.rc = thrd_busy
    /\ mtx.owner # NoOwner /\ mtx.owner # ret.thr
    /\ held[mtx.owner] = 1

\* C6: no lost updates. When thread 0 has joined all NThreads threads of the
\* counter program, the counter equals NThreads.
C6_NoLostUpdate == pc[0] = "done" => counter = NThreads

\* C6 on the unix build alone
C6_NoLostUpdateUnix == backend = "unix" /\ pc[0] = "done" => counter = NThreads

\* the unix build reaches the end of the counter program
C6_Witness == backend = "unix" /\ pc[0] = "done"

\* thrd_equal returned from a call in which one handle named no thread
LookupFailed == ret.op = "thrd_equal" /\ ret.b \in {0, 1}

\* C11: on the win32 build, when GetThreadId fails for either handle,
\* thrd_equal leaves the native error in errno and returns 0, which the caller
\* reads as "not the same thread".
C11_LookupFailure ==
    LookupFailed => errno[ret.thr] = ERROR_INVALID_HANDLE /\ ret.rc = 0

\* the first half of C11 alone: the native error is in errno
C11_LookupRecorded == LookupFailed => errno[ret.thr] = ERROR_INVALID_HANDLE

\* the functions that return a result code
ResultOps == {"thrd_create", "thrd_detach", "thrd_join", "mtx_init", "mtx_lock",
              "mtx_trylock", "mtx_unlock"}

\* r records a call that returned a result code other than thrd_success
FailedReturn(r) ==
    /\ r.op \in ResultOps
    /\ r.rc \in {thrd_nomem, thrd_timedout, thrd_busy, thrd_error}

\* the values a failing native call hands back: pthread error numbers,
\* GetLastError() values and wait statuses
NativeErrors ==
    {EPERM, EAGAIN, ENOMEM, EBUSY, EINVAL, EDEADLK, ERROR_INVALID_HANDLE,
     ERROR_NOT_ENOUGH_MEMORY, ERROR_NOT_OWNER, ToInt(WAIT_ABANDONED), ToInt(WAIT_TIMEOUT)}

\* C12: every call that returns a result code other than thrd_success leaves a
\* native error value in errno, on both builds and on every failing path, the
\* rejection of an unsupported mutex type included.
C12_FailureSetsErrno ==
    [][ret' # ret /\ FailedReturn(ret') => errno'[ret'.thr] \in NativeErrors]_vars

\* C12 on the unix build alone, with the value: errno is the value the native
\* call returned, or EINVAL when mtx_init rejected the type
C12_FailureSetsErrnoUnix ==
    [][backend = "unix" /\ ret' # ret /\ FailedReturn(ret')
          => errno'[ret'.thr] = (IF ret'.nat = NoArg THEN EINVAL ELSE ret'.nat)]_vars

\* the step in which thrd_create(&slot[i], ...) returns, after a native
\* creation that failed (fail) or worked
CreateReturns(i, fail) ==
    IF backend = "unix"
    THEN ThrdCreate(i, fail)
    ELSE ThrdCreateStore /\ call[0].i = i /\ (call[0].h = NULL) = fail

\* C13: thrd_create returns thrd_nomem when the native creation fails for lack
\* of memory or resources (pthread_create gives EAGAIN, CreateThread fails with
\* ERROR_NOT_ENOUGH_MEMORY), and thrd_success when the thread was created.
C13_CreateResult ==
    [][\A i \in Created :
          /\ CreateReturns(i, TRUE) => ret'.rc = thrd_nomem
          /\ CreateReturns(i, FALSE) => ret'.rc = thrd_success]_vars

\* the parts of C13 that do not name thrd_nomem: a failed creation returns a
\* result other than thrd_success, a creation that worked thrd_success
C13_CreateFailsOrSucceeds ==
    [][\A i \in Created :
          /\ CreateReturns(i, TRUE) => ret'.rc # thrd_success
          /\ CreateReturns(i, FALSE) => ret'.rc = thrd_success /\ tab'[i].st # "none"]_vars

\* C14: a thrd_join returns thrd_success only when the joined thread has
\* already ended, by returning from its entry function or by thrd_exit: the
\* thread is terminated in the state the join returns from, and stays so.
C14_JoinAfterTermination ==
    [][\A t \in Threads :
          ThrdJoinReturn(t) /\ ret'.rc = thrd_success
              => /\ tab[ThreadOf(call[t].h)].st = "term"
                 /\ tab[ThreadOf(call[t].h)].how \in {"return", "exit"}
                 /\ tab'[ThreadOf(call[t].h)].st = "term"]_vars

\* thread 0 is inside thrd_join on a thread that still runs, so the join is
\* held back
C14_WitnessWaiting ==
    \E i \in Created :
        /\ call[0].op = "thrd_join" /\ call[0].h = slot[i] /\ slot[i] # NULL
        /\ tab[i].st = "run"

\* C14 witness: a join returned thrd_success for a thread that ended through
\* thrd_exit
C14_Witness ==
    /\ ret.op = "thrd_join" /\ ret.rc = thrd_success
    /\ ret.a \in Created /\ tab[ret.a].how = "exit"

\* the functions whose result is translated from a native wait or lock status
TranslatedOps == {"thrd_join", "mtx_lock", "mtx_trylock"}

\* the native status r.nat says "already held": EBUSY from pthread_mutex_trylock,
\* WAIT_TIMEOUT from the wait mtx_trylock makes
NativeHeld(r) ==
    /\ r.op = "mtx_trylock"
    /\ r.nat = (IF backend = "unix" THEN EBUSY ELSE ToInt(WAIT_TIMEOUT))

\* the native status r.nat says a wait timed out: WAIT_TIMEOUT from the wait
\* thrd_join or mtx_lock makes
NativeTimeout(r) ==
    /\ r.op \in {"thrd_join", "mtx_lock"}
    /\ backend = "win32"
    /\ r.nat = ToInt(WAIT_TIMEOUT)

\* the result code of every thrd_join, mtx_lock and mtx_trylock that returned is
\* the translation of its native status: success to thrd_success, "already
\* held" to thrd_busy, a timed out wait to thrd_timedout, everything else to
\* thrd_error
TranslationOfReturns ==
    ret.op \in TranslatedOps =>
        ret.rc = (IF ret.nat = 0 THEN thrd_success
                  ELSE IF NativeHeld(ret) THEN thrd_busy
                  ELSE IF NativeTimeout(ret) THEN thrd_timedout
                  ELSE thrd_error)

\* C15: the translation is the same for thrd_join, mtx_lock and mtx_trylock on
\* both builds: a mtx_trylock that finds the mutex held by another thread
\* returns thrd_busy, and the result code of every call that returned is the
\* translation of its native status (thrd_busy for "already held" in
\* mtx_trylock only, thrd_timedout for a timed out wait, thrd_error for every
\* other native failure).
C15_UniformTranslation ==
    /\ \A t \in Threads :
          call[t].op = "mtx_trylock" /\ HeldByOther(t) =>
              LET r == mtx_trylock(backend, mtx, t, errno[t]) IN
              ~r.blocks /\ r.rc = thrd_busy /\ r.nat # 0
    /\ TranslationOfReturns

\* thread w is inside mtx_lock
InLock(w) == pc[w] \in {"lock", "relock"}

\* thread w holds the mutex after a mtx_lock that returned thrd_success
Acquired(w) == held[w] = 1 /\ mtx.owner = w

\* a mtx_lock of thread u returns thrd_success
Acquires(u) == (CounterLock(u) \/ CounterRelock(u)) /\ ret'.rc = thrd_success

\* C16 as stated, its general part: under a fair scheduler, where every thread
\* that acquires the mutex calls mtx_unlock, every thread inside mtx_lock on
\* the mutex eventually holds it with thrd_success.
C16_LockLiveness ==
    \A w \in Created : (InLock(w) /\ mtx.valid) ~> Acquired(w)

\* C16, amended: under the same conditions a thread inside mtx_lock on the
\* mutex eventually holds it with thrd_success, unless other threads acquire
\* the mutex again and again for ever; and the program ends with all its
\* threads joined, unless some thread comes back for the mutex again and
\* again for ever.  So where every thread acquires once, as in the
\* lock/increment/unlock scenario, every thread inside mtx_lock acquires the
\* mutex and all joins return.
C16_LockProgress ==
    /\ \A w \in Created :
          \/ (InLock(w) /\ mtx.valid) ~> Acquired(w)
          \/ []<><<\E u \in Created \ {w} : Acquires(u)>>_vars
    /\ \/ \E w \in Created : []<>(pc[w] = "relock")
       \/ <>(pc[0] = "done" /\ \A i \in Created : tab[i].joined)

\* C16 witness: a thread is inside its first mtx_lock while another thread,
\* which has had the mutex before, holds it again
C16_Witness ==
    \E w, u \in Created :
        /\ backend = "unix"
        /\ pc[w] = "lock" /\ pc[u] = "reunlock"
        /\ mtx.valid /\ mtx.owner = u /\ held[u] = 1

\* the same on the win32 build
C16_WitnessWin32 ==
    \E w, u \in Created :
        /\ backend = "win32"
        /\ pc[w] = "lock" /\ pc[u] = "reunlock"
        /\ mtx.valid /\ mtx.owner = u /\ held[u] = 1

\* in the scenario itself, where every thread acquires once, every thread
\* inside mtx_lock acquires the mutex and all joins return (SpecCounterFair)
C16_ScenarioTerminates ==
    /\ \A w \in Created : (pc[w] = "lock" /\ mtx.valid) ~> Acquired(w)
    /\ <>(pc[0] = "done" /\ \A i \in Created : tab[i].joined)

\* C17: errno is never cleared. A step changes the errno of a thread only when
\* it is the return of a call of that thread that failed: the call returned a
\* result code other than thrd_success, or it is a thrd_equal whose lookup
\* failed, or a mtx_destroy whose native call failed. Every call that returns
\* thrd_success, and every thrd_yield and mtx_destroy whose native call
\* succeeds, leaves errno as it was.
C17_ErrnoKept ==
    [][\A t \in Threads :
          errno'[t] # errno[t] =>
              /\ ret'.thr = t
              /\ \/ FailedReturn(ret')
                 \/ ret'.op = "thrd_equal" /\ ret'.rc = thrd_error
                 \/ /\ ret'.op = "mtx_destroy"
                    /\ IF backend = "unix" THEN ret'.nat # 0 ELSE ~mtx.valid]_vars

\* C17 witness: errno holds the error of an earlier call and a mtx_unlock has
\* just returned thrd_success
C17_Witness ==
    ret.op = "mtx_unlock" /\ ret.rc = thrd_success /\ errno[ret.thr] # 0

\* the same for a thrd_yield and for a mtx_destroy that destroyed the mutex
C17_WitnessYield == ret.op = "thrd_yield" /\ errno[ret.thr] # 0

C17_WitnessDestroy ==
    ret.op = "mtx_destroy" /\ ret.nat = 0 /\ errno[ret.thr] # 0

\* C18: right after mtx_init of a supported type on a mutex that is not
\* initialised, mtx_init has returned thrd_success and the mutex has no owner:
\* a first mtx_trylock by any thread, thread 0 that made it or another, returns
\* thrd_success, on both builds.
C18_InitUnowned ==
    [][\A type \in Supported :
          MtxInit(type, FALSE) /\ ~mtx.valid =>
              /\ ret'.rc = thrd_success
              /\ mtx'.owner = NoOwner
              /\ \A t \in Threads :
                    LET r == mtx_trylock(backend, mtx', t, errno'[t]) IN
                    ~r.blocks /\ r.rc = thrd_success]_vars

\* C18 on the unix build alone
C18_InitUnownedUnix ==
    [][\A type \in Supported :
          backend = "unix" /\ MtxInit(type, FALSE) /\ ~mtx.valid =>
              /\ ret'.rc = thrd_success
              /\ mtx'.owner = NoOwner
              /\ \A t \in Threads :
                    LET r == mtx_trylock(backend, mtx', t, errno'[t]) IN
                    ~r.blocks /\ r.rc = thrd_success]_vars

\* C19: a thrd_join that returns thrd_error leaves the int its res argument
\* points to as it was, on both builds.
C19_FailedJoinKeepsOut ==
    [][\A t \in Threads :
          ThrdJoinReturn(t) /\ ret'.rc = thrd_error => out' = out]_vars

\* C19 on the unix build alone
C19_FailedJoinKeepsOutUnix ==
    [][\A t \in Threads :
          backend = "unix" /\ ThrdJoinReturn(t) /\ ret'.rc = thrd_error
              => out' = out]_vars

====
